---- MODULE Spec2Model ----
(***************************************************************************)
(* The playback process lifecycle of terminal-radio: the RadioPlayer class *)
(* (src/src/radio-player.ts) and the host-process handlers that drive it   *)
(* (src/src/index.ts).                                                     *)
(*                                                                         *)
(* A handler of the program is one operator over a "world" record w (the   *)
(* RadioPlayer fields, the child processes and the Node.js event queues);  *)
(* the actions draw the handler's inputs and store the world it returns.   *)
(***************************************************************************)
EXTENDS Integers, Sequences, FiniteSets, TLC

\* ---------------------------------------------------------------- bounds
\* play() invocations explored in one run of the host
MaxCalls == 3
\* ChildProcess objects (mpv or vlc) created in one run of the host
MaxProc == 2
\* largest limit a caller passes to searchStations / searchByGenre
MaxLimit == 2
\* longest list the station directory answers with
MaxData == 3

\* ---------------------------------------------------------------- values
\* RadioStation values (name, url); NoStation stands for null.
Stations ==
  { [name |-> "BBC Radio 1", url |-> "http://stream.live.vc.bbcmedia.co.uk/bbc_radio_one"],
    [name |-> "Jazz24", url |-> "http://live.str3am.com:2540/jazz24"] }

NoStation == [name |-> "null", url |-> "null"]

\* What spawn() can do: a running child, an errno that Node reports through
\* the child's 'error' event on the next tick (pid undefined), or a throw.
SpawnOutcomes == {"ok", "ENOENT", "EACCES", "throw"}

\* Exit codes an 'exit' listener can receive; CodeNull is null (the child
\* was ended by a signal), NotExited marks a child with no exit so far.
CodeNull == 0 - 1
NotExited == 0 - 2

\* mpv/vlc processes that this run did not spawn: 101 is an mpv of the same
\* user, 102 a vlc of another user (process.kill on it fails with EPERM).
ForeignPids == {101, 102}
ForeignBin(f) == IF f = 101 THEN "mpv" ELSE "vlc"
ForeignOwn(f) == f = 101

\* RadioBrowserStation entries the station directory can answer with: one
\* with a resolved url, one without, one whose last check failed.
Directory ==
  { [name |-> "Jazz24", url |-> "http://live.str3am.com:2540/jazz24",
     url_resolved |-> "http://live.str3am.com:2540/jazz24.mp3", tags |-> "jazz",
     country |-> "US", bitrate |-> 128, codec |-> "MP3", lastcheckok |-> 1],
    [name |-> "Smooth Jazz", url |-> "http://smoothjazz.example/stream",
     url_resolved |-> "", tags |-> "jazz,smooth",
     country |-> "DE", bitrate |-> 192, codec |-> "AAC", lastcheckok |-> 1],
    [name |-> "Jazz Offline", url |-> "http://offline.example/stream",
     url_resolved |-> "", tags |-> "jazz",
     country |-> "FR", bitrate |-> 64, codec |-> "MP3", lastcheckok |-> 0] }

\* What axios.get resolves to: ok is FALSE when the request fails (network
\* error, timeout, error status), else data is response.data. The directory
\* is a remote service; its answer is whatever comes over the wire.
Replies ==
  { [ok |-> FALSE, data |-> << >>] } \cup
  { [ok |-> TRUE, data |-> d] : d \in UNION { [1..n -> Directory] : n \in 0..MaxData } }

Queries == {"jazz"}
Limits == 1..MaxLimit

VARIABLES
  currentProcess,  \* RadioPlayer.currentProcess: 0 (null) or an index of procs
  currentStation,  \* RadioPlayer.currentStation
  processIds,      \* RadioPlayer.processIds
  procs,           \* the ChildProcess objects created so far, in order
  calls,           \* the play() invocations so far, in order
  ticks,           \* process.nextTick queue: 'error' events of failed spawns
  timers,          \* the 1000 ms timers, in the order they were set
  foreign,         \* the mpv/vlc processes of other origins
  raised,          \* an exception escaped a RadioPlayer method
  host,            \* Running, ShuttingDown, Exiting (in process.exit), Exited
  exitCode,        \* the status given to process.exit, CodeNull before
  exitTimer,       \* a 100 ms timer of gracefulShutdown is pending
  stdinOpen,       \* process.stdin not yet destroyed
  lastOp,          \* the RadioPlayer method the caller invoked last
  search           \* a call of searchStations / searchByGenre and its result

vars == << currentProcess, currentStation, processIds, procs, calls, ticks,
           timers, foreign, raised, host, exitCode, exitTimer, stdinOpen,
           lastOp, search >>

\* ---------------------------------------------------------------- world
\* pgrep: whether execSync('pgrep ...') can run when forceStop reaches it.
World ==
  [ currentProcess |-> currentProcess, currentStation |-> currentStation,
    processIds |-> processIds, procs |-> procs, calls |-> calls,
    ticks |-> ticks, timers |-> timers, foreign |-> foreign,
    raised |-> raised, pgrep |-> TRUE ]

WorldAt(pgrep) == [World EXCEPT !.pgrep = pgrep]

Store(w) ==
  /\ currentProcess' = w.currentProcess
  /\ currentStation' = w.currentStation
  /\ processIds' = w.processIds
  /\ procs' = w.procs
  /\ calls' = w.calls
  /\ ticks' = w.ticks
  /\ timers' = w.timers
  /\ foreign' = w.foreign
  /\ raised' = w.raised
  /\ UNCHANGED search   \* the search methods touch no field of the player

\* A ChildProcess object. pid is the object's index in procs when hasPid
\* (process identifiers are never reused here). killed is ChildProcess.killed,
\* which only ChildProcess.kill() sets; errno is "ok" for a child that runs.
NewChild(bin, station, call, outcome) ==
  [ bin |-> bin, url |-> station.url, call |-> call, errno |-> outcome,
    hasPid |-> (outcome = "ok"), alive |-> (outcome = "ok"), killed |-> FALSE,
    sigterm |-> FALSE, sigkill |-> FALSE, code |-> NotExited,
    notice |-> FALSE, hint |-> FALSE, errReported |-> FALSE ]

\* error.message of a failed spawn, as words: "spawn mpv ENOENT".
SpawnError(bin, errno) == << "spawn", bin, errno >>

\* String.prototype.includes, on words.
Includes(msg, word) == \E i \in 1..Len(msg) : msg[i] = word

\* ---------------------------------------------------------------- signals
\* process.kill(-pid, sig) on a child of this run throws ESRCH when the
\* process group is gone.
KillThrows(w, pid) == ~ w.procs[pid].alive

\* process.kill(-pid, sig) that did not throw: the signal is delivered.
processKill(w, pid, sig) ==
  IF sig = "SIGKILL"
  THEN [w EXCEPT !.procs[pid].sigkill = TRUE]
  ELSE [w EXCEPT !.procs[pid].sigterm = TRUE]

\* Faulty variant of killCurrent: the setTimeout is outside the test of
\* currentProcess, so a deferred kill is set even when nothing plays.
killCurrent_TimerAlways(w, force) ==
  LET cp == w.currentProcess
      w1 == IF cp # 0 /\ ~ w.procs[cp].killed /\ w.procs[cp].hasPid /\ ~ KillThrows(w, cp)
            THEN processKill(w, cp, IF force THEN "SIGKILL" ELSE "SIGTERM")
            ELSE w
  IN IF force
     THEN w1
     ELSE [w1 EXCEPT !.timers = Append(@, [kind |-> "killCurrent", arg |-> 0])]

\* killAllProcesses, first block: the current process.
killCurrent(w, force) ==
  LET cp == w.currentProcess IN
  IF cp # 0 /\ ~ w.procs[cp].killed
  THEN IF w.procs[cp].hasPid /\ KillThrows(w, cp)
       THEN w   \* caught; in the graceful branch setTimeout is skipped too
       ELSE LET w1 == IF w.procs[cp].hasPid
                      THEN processKill(w, cp, IF force THEN "SIGKILL" ELSE "SIGTERM")
                      ELSE w
            IN IF force
               THEN w1
               ELSE [w1 EXCEPT !.timers = Append(@, [kind |-> "killCurrent", arg |-> 0])]
  ELSE w

\* killAllProcesses, the loop over processIds.
RECURSIVE killTracked(_, _, _)
killTracked(w, ids, force) ==
  IF ids = << >>
  THEN w
  ELSE LET pid == Head(ids)
           w1 == IF KillThrows(w, pid)
                 THEN w   \* caught; no timer for this pid
                 ELSE IF force
                      THEN processKill(w, pid, "SIGKILL")
                      ELSE [processKill(w, pid, "SIGTERM") EXCEPT
                              !.timers = Append(@, [kind |-> "killPid", arg |-> pid])]
       IN killTracked(w1, Tail(ids), force)

killAllProcesses(w, force) ==
  [killTracked(killCurrent(w, force), w.processIds, force) EXCEPT !.processIds = << >>]

\* Faulty variant of sweep: execSync is not inside a try, so a pgrep that
\* cannot run raises out of forceStop.
sweep_Throws(w, bin) ==
  IF ~ w.pgrep
  THEN [w EXCEPT !.raised = TRUE]
  ELSE [w EXCEPT
         !.procs = [p \in DOMAIN w.procs |->
                      IF w.procs[p].bin = bin /\ w.procs[p].hasPid /\ w.procs[p].alive
                      THEN [w.procs[p] EXCEPT !.sigkill = TRUE]
                      ELSE w.procs[p]]]

\* One half of killOrphanedProcesses: pgrep <bin>, then SIGKILL to every pid
\* it printed. execSync throws when pgrep cannot run or matches nothing, and
\* process.kill throws EPERM on a process of another user: both are caught.
sweep(w, bin) ==
  IF ~ w.pgrep
  THEN w
  ELSE [w EXCEPT
         !.procs = [p \in DOMAIN w.procs |->
                      IF w.procs[p].bin = bin /\ w.procs[p].hasPid /\ w.procs[p].alive
                      THEN [w.procs[p] EXCEPT !.sigkill = TRUE]
                      ELSE w.procs[p]],
         !.foreign = [f \in ForeignPids |->
                      IF ForeignBin(f) = bin /\ w.foreign[f] = "running" /\ ForeignOwn(f)
                      THEN "killed"
                      ELSE w.foreign[f]]]

killOrphanedProcesses(w) == sweep(sweep(w, "mpv"), "vlc")

\* Faulty variant of stop: the orphan sweep runs on the normal stop path too.
stop_Sweeps(w) ==
  [killOrphanedProcesses(killAllProcesses(w, FALSE)) EXCEPT
     !.currentProcess = 0, !.currentStation = NoStation]

\* Faulty variant of stop: currentProcess is not reset.
stop_KeepsHandle(w) ==
  [killAllProcesses(w, FALSE) EXCEPT !.currentStation = NoStation]

stop(w) ==
  [killAllProcesses(w, FALSE) EXCEPT !.currentProcess = 0, !.currentStation = NoStation]

forceStop(w) ==
  [killOrphanedProcesses(killAllProcesses(w, TRUE)) EXCEPT
     !.currentProcess = 0, !.currentStation = NoStation]

getCurrentStation(w) == w.currentStation

isPlaying(w) == w.currentProcess # 0 /\ ~ w.procs[w.currentProcess].killed

\* ---------------------------------------------------------------- search
\* The object the .map callback of both search methods builds.
ToStation(e) ==
  [ name |-> e.name,
    url |-> IF e.url_resolved # "" THEN e.url_resolved ELSE e.url,
    genre |-> e.tags, country |-> e.country, bitrate |-> e.bitrate,
    codec |-> e.codec ]

Working(e) == e.lastcheckok = 1

\* The params object sent to the directory.
SearchParams(key, value, limit) ==
  [ key |-> key, value |-> value, limit |-> limit, hidebroken |-> TRUE,
    order |-> "votes", reverse |-> TRUE ]

\* The value both search methods return: response.data, filtered and mapped;
\* [] from the catch when the request fails.
searchResult(reply) ==
  IF ~ reply.ok
  THEN << >>
  ELSE LET working == SelectSeq(reply.data, Working)
       IN [i \in 1..Len(working) |-> ToStation(working[i])]

\* searchStations(query, limit) and searchByGenre(genre, limit), given what
\* axios.get resolves to: limit goes into the request and nowhere else.
searchStations(query, limit, reply) ==
  [ params |-> SearchParams("name", query, limit), result |-> searchResult(reply) ]

searchByGenre(genre, limit, reply) ==
  [ params |-> SearchParams("tag", genre, limit), result |-> searchResult(reply) ]

NoSearch ==
  [ phase |-> "none", query |-> "", limit |-> 0,
    reply |-> [ok |-> FALSE, data |-> << >>], params |-> << >>, result |-> << >> ]

\* ---------------------------------------------------------------- spawning
\* Faulty variant of tryVLC: the pid of the vlc child is not pushed to
\* processIds.
tryVLC_NoTrack(w, call, station, outcome) ==
  LET w0 == [w EXCEPT !.calls[call].secondary = @ + 1] IN
  IF outcome = "throw"
  THEN [w0 EXCEPT !.calls[call].vlcFailed = TRUE]
  ELSE LET h  == Len(w.procs) + 1
           w1 == [w0 EXCEPT !.procs = Append(@, NewChild("vlc", station, call, outcome)),
                            !.currentProcess = h]
       IN IF outcome = "ok"
          THEN w1
          ELSE [w1 EXCEPT !.ticks = Append(@, [proc |-> h, msg |-> SpawnError("vlc", outcome)])]

\* tryVLC(station), called for the play() numbered call; outcome is what
\* spawn('vlc') does.
tryVLC(w, call, station, outcome) ==
  LET w0 == [w EXCEPT !.calls[call].secondary = @ + 1] IN
  IF outcome = "throw"
  THEN [w0 EXCEPT !.calls[call].vlcFailed = TRUE]
  ELSE LET h  == Len(w.procs) + 1
           w1 == [w0 EXCEPT !.procs = Append(@, NewChild("vlc", station, call, outcome)),
                            !.currentProcess = h]
       IN IF outcome = "ok"
          THEN [w1 EXCEPT !.processIds = Append(@, h)]
          ELSE [w1 EXCEPT !.ticks = Append(@, [proc |-> h, msg |-> SpawnError("vlc", outcome)])]

\* Faulty variant of play: currentStation is assigned before stop() runs,
\* which resets it.
play_StationFirst(w, station, o1, o2) ==
  LET c  == Len(w.calls) + 1
      w1 == stop([w EXCEPT !.currentStation = station])
      w2 == [w1 EXCEPT
               !.calls = Append(@, [station |-> station, resolved |-> FALSE,
                                    nowPlaying |-> FALSE, primary |-> 1,
                                    secondary |-> 0, failed |-> FALSE,
                                    vlcFailed |-> FALSE])]
  IN IF o1 = "throw"
     THEN [tryVLC([w2 EXCEPT !.calls[c].failed = TRUE], c, station, o2) EXCEPT
             !.calls[c].resolved = TRUE]
     ELSE LET h  == Len(w2.procs) + 1
              w3 == [w2 EXCEPT !.procs = Append(@, NewChild("mpv", station, c, o1)),
                               !.currentProcess = h]
              w4 == IF o1 = "ok"
                    THEN [w3 EXCEPT !.processIds = Append(@, h)]
                    ELSE [w3 EXCEPT !.ticks = Append(@, [proc |-> h, msg |-> SpawnError("mpv", o1)])]
          IN [w4 EXCEPT !.timers = Append(@, [kind |-> "resume", arg |-> c])]

\* play(station) up to its await (or to its end, when spawn throws).
\* o1 is what spawn('mpv') does, o2 what spawn('vlc') does if it is reached.
play(w, station, o1, o2) ==
  LET c  == Len(w.calls) + 1
      w1 == stop(w)
      w2 == [w1 EXCEPT
               !.currentStation = station,
               !.calls = Append(@, [station |-> station, resolved |-> FALSE,
                                    nowPlaying |-> FALSE, primary |-> 1,
                                    secondary |-> 0, failed |-> FALSE,
                                    vlcFailed |-> FALSE])]
  IN IF o1 = "throw"
     THEN [tryVLC([w2 EXCEPT !.calls[c].failed = TRUE], c, station, o2) EXCEPT
             !.calls[c].resolved = TRUE]
     ELSE LET h  == Len(w2.procs) + 1
              w3 == [w2 EXCEPT !.procs = Append(@, NewChild("mpv", station, c, o1)),
                               !.currentProcess = h]
              w4 == IF o1 = "ok"
                    THEN [w3 EXCEPT !.processIds = Append(@, h)]
                    ELSE [w3 EXCEPT !.ticks = Append(@, [proc |-> h, msg |-> SpawnError("mpv", o1)])]
          IN [w4 EXCEPT !.timers = Append(@, [kind |-> "resume", arg |-> c])]

\* play(), after the await.
playResume(w, c) ==
  [w EXCEPT !.calls[c].resolved = TRUE,
            !.calls[c].nowPlaying = isPlaying(w)]

\* ---------------------------------------------------------------- listeners
\* Faulty variant of onMpvError: any error falls back to vlc.
onMpvError_AnyError(w, h, msg, o2) ==
  tryVLC(w, w.procs[h].call, w.calls[w.procs[h].call].station, o2)

\* 'error' listener of the mpv child h; o2 is what spawn('vlc') does.
onMpvError(w, h, msg, o2) ==
  IF Includes(msg, "ENOENT")
  THEN tryVLC(w, w.procs[h].call, w.calls[w.procs[h].call].station, o2)
  ELSE [w EXCEPT !.procs[h].errReported = TRUE]

\* Faulty variant of onVlcError: a missing vlc is answered by another launch
\* attempt (which fails the same way).
onVlcError_Retry(w, h, msg) ==
  IF Includes(msg, "ENOENT")
  THEN tryVLC(w, w.procs[h].call, w.calls[w.procs[h].call].station, "ENOENT")
  ELSE [w EXCEPT !.procs[h].errReported = TRUE]

\* 'error' listener of the vlc child h.
onVlcError(w, h, msg) ==
  IF Includes(msg, "ENOENT")
  THEN [w EXCEPT !.procs[h].hint = TRUE]
  ELSE [w EXCEPT !.procs[h].errReported = TRUE]

\* 'exit' listener (the same for both backends) of child h, which has ended.
onExit(w, h, code) ==
  LET w1 == [w EXCEPT !.procs[h].alive = FALSE, !.procs[h].code = code] IN
  IF code # 0 /\ code # CodeNull
  THEN [w1 EXCEPT !.procs[h].notice = TRUE]
  ELSE w1

\* The deferred kill of killAllProcesses' first block.
killCurrentTimer(w) ==
  LET cp == w.currentProcess IN
  IF cp # 0 /\ ~ w.procs[cp].killed /\ w.procs[cp].hasPid
  THEN IF KillThrows(w, cp) THEN w ELSE processKill(w, cp, "SIGKILL")
  ELSE w

\* The deferred kill of killAllProcesses' loop.
killPidTimer(w, pid) ==
  IF KillThrows(w, pid) THEN w ELSE processKill(w, pid, "SIGKILL")

\* ---------------------------------------------------------------- actions
Init ==
  /\ currentProcess = 0
  /\ currentStation = NoStation
  /\ processIds = << >>
  /\ procs = << >>
  /\ calls = << >>
  /\ ticks = << >>
  /\ timers = << >>
  /\ foreign = [f \in ForeignPids |-> "running"]
  /\ raised = FALSE
  /\ host = "Running"
  /\ exitCode = CodeNull
  /\ exitTimer = FALSE
  /\ stdinOpen = TRUE
  /\ lastOp = [op |-> "none", call |-> 0, prev |-> 0]
  /\ search = NoSearch

HostVars == << host, exitCode, exitTimer, stdinOpen >>

\* The host still runs JavaScript.
Live == host \in {"Running", "ShuttingDown"}

\* The nextTick queue is drained before any timer, signal or I/O callback.
Idle == ticks = << >>

\* Child objects still to come: the vlc of the fallback, for each failed
\* spawn('mpv') whose ENOENT 'error' event is pending.
Pending ==
  Cardinality({i \in 1..Len(ticks) :
                 procs[ticks[i].proc].bin = "mpv" /\ Includes(ticks[i].msg, "ENOENT")})

\* Child objects a play() creates or will create: none when both spawns
\* throw, mpv and the vlc of its fallback when mpv is missing, else one.
Needs(o1, o2) ==
  IF o1 = "throw"
  THEN (IF o2 = "throw" THEN 0 ELSE 1)
  ELSE (IF o1 = "ENOENT" THEN 2 ELSE 1)

\* The caller invokes play(station). lastOp.prev names the play() invoked just
\* before this one, if that one had already returned (for a forceStop() it
\* tells whether the method invoked just before was a forceStop() too).
Play(station, o1, o2) ==
  /\ host = "Running"
  /\ Len(calls) < MaxCalls
  /\ Len(procs) + Pending + Needs(o1, o2) <= MaxProc
  /\ Store(play(World, station, o1, o2))
  /\ lastOp' = [op |-> "play", call |-> Len(calls) + 1,
                prev |-> IF lastOp.op = "play" /\ calls[lastOp.call].resolved
                         THEN lastOp.call ELSE 0]
  /\ UNCHANGED HostVars

\* The caller invokes stop().
Stop ==
  /\ host = "Running"
  /\ Store(stop(World))
  /\ lastOp' = [op |-> "stop", call |-> 0, prev |-> 0]
  /\ UNCHANGED HostVars

\* The caller invokes forceStop().
ForceStop(pgrep) ==
  /\ host = "Running"
  /\ Store(forceStop(WorldAt(pgrep)))
  /\ lastOp' = [op |-> "forceStop", call |-> 0,
                prev |-> IF lastOp.op = "forceStop" THEN 1 ELSE 0]
  /\ UNCHANGED HostVars

\* main() is at its menu prompt: it is not inside an awaited play(), and the
\* answer to the prompt arrives as an I/O event.
AtPrompt ==
  /\ host = "Running"
  /\ Idle
  /\ \A c \in DOMAIN calls : calls[c].resolved

\* Menu entries "Play from Popular Stations", "Search Stations Online" and
\* "Enter Custom Stream URL": await radioPlayer.play(station).
MenuPlay(station, o1, o2) == AtPrompt /\ Play(station, o1, o2)

\* Menu entry "Stop Current Station".
MenuStop == AtPrompt /\ Stop

\* Menu entry "Exit": stop(), then process.exit(0).
MenuExit ==
  /\ AtPrompt
  /\ Store(stop(World))
  /\ host' = "Exiting"
  /\ exitCode' = 0
  /\ lastOp' = [op |-> "stop", call |-> 0, prev |-> 0]
  /\ UNCHANGED << exitTimer, stdinOpen >>

\* Faulty variant of gracefulShutdown: the setTimeout that calls process.exit
\* is missing.
gracefulShutdown_NoTimer(pgrep) ==
  /\ Live
  /\ Idle
  /\ Store(forceStop(WorldAt(pgrep)))
  /\ host' = "ShuttingDown"
  /\ stdinOpen' = FALSE
  /\ lastOp' = [op |-> "forceStop", call |-> 0,
                prev |-> IF lastOp.op = "forceStop" THEN 1 ELSE 0]
  /\ UNCHANGED << exitCode, exitTimer >>

\* gracefulShutdown(signal), for SIGINT, SIGTERM and SIGHUP. Each call sets
\* a 100 ms timer; the first one to fire ends the process, so all that is
\* kept of them is whether one is pending.
gracefulShutdown(pgrep) ==
  /\ Live
  /\ Idle
  /\ Store(forceStop(WorldAt(pgrep)))
  /\ host' = "ShuttingDown"
  /\ stdinOpen' = FALSE
  /\ exitTimer' = TRUE
  /\ lastOp' = [op |-> "forceStop", call |-> 0,
                prev |-> IF lastOp.op = "forceStop" THEN 1 ELSE 0]
  /\ UNCHANGED exitCode

\* The 100 ms timer of gracefulShutdown: process.exit(0).
ExitTimer ==
  /\ host = "ShuttingDown"
  /\ Idle
  /\ exitTimer
  /\ host' = "Exiting"
  /\ exitCode' = 0
  /\ exitTimer' = FALSE
  /\ UNCHANGED << currentProcess, currentStation, processIds, procs, calls,
                  ticks, timers, foreign, raised, stdinOpen, lastOp, search >>

\* Faulty variant of UncaughtException: process.exit is given status 0.
UncaughtException_ExitZero(pgrep) ==
  /\ Live
  /\ Idle
  /\ Store(forceStop(WorldAt(pgrep)))
  /\ host' = "Exiting"
  /\ exitCode' = 0
  /\ lastOp' = [op |-> "forceStop", call |-> 0,
                prev |-> IF lastOp.op = "forceStop" THEN 1 ELSE 0]
  /\ UNCHANGED << exitTimer, stdinOpen >>

\* process.on('uncaughtException'): forceStop(), then process.exit(1).
UncaughtException(pgrep) ==
  /\ Live
  /\ Idle
  /\ Store(forceStop(WorldAt(pgrep)))
  /\ host' = "Exiting"
  /\ exitCode' = 1
  /\ lastOp' = [op |-> "forceStop", call |-> 0,
                prev |-> IF lastOp.op = "forceStop" THEN 1 ELSE 0]
  /\ UNCHANGED << exitTimer, stdinOpen >>

\* process.on('unhandledRejection'): forceStop(), then process.exit(1).
UnhandledRejection(pgrep) ==
  /\ Live
  /\ Idle
  /\ Store(forceStop(WorldAt(pgrep)))
  /\ host' = "Exiting"
  /\ exitCode' = 1
  /\ lastOp' = [op |-> "forceStop", call |-> 0,
                prev |-> IF lastOp.op = "forceStop" THEN 1 ELSE 0]
  /\ UNCHANGED << exitTimer, stdinOpen >>

\* process.on('exit'), run by process.exit: a last forceStop().
ExitHandler(pgrep) ==
  /\ host = "Exiting"
  /\ Store(forceStop(WorldAt(pgrep)))
  /\ host' = "Exited"
  /\ lastOp' = [op |-> "forceStop", call |-> 0,
                prev |-> IF lastOp.op = "forceStop" THEN 1 ELSE 0]
  /\ UNCHANGED << exitCode, exitTimer, stdinOpen >>

\* The 'error' event of a failed spawn('mpv') is delivered.
MpvError(o2) ==
  /\ Live
  /\ ticks # << >>
  /\ procs[Head(ticks).proc].bin = "mpv"
  /\ Store(onMpvError([World EXCEPT !.ticks = Tail(@)], Head(ticks).proc,
                      Head(ticks).msg, o2))
  /\ UNCHANGED << HostVars, lastOp >>

\* The 'error' event of a failed spawn('vlc') is delivered.
VlcError ==
  /\ Live
  /\ ticks # << >>
  /\ procs[Head(ticks).proc].bin = "vlc"
  /\ Store(onVlcError([World EXCEPT !.ticks = Tail(@)], Head(ticks).proc,
                      Head(ticks).msg))
  /\ UNCHANGED << HostVars, lastOp >>

\* A child ends and its 'exit' event is delivered. A child ends with a code
\* of its own, or with null when a signal sent to it ended it.
ExitCodes(p) ==
  {0, 1} \cup (IF procs[p].sigterm \/ procs[p].sigkill THEN {CodeNull} ELSE {})

ChildExit(h, code) ==
  /\ Live
  /\ Idle
  /\ procs[h].alive
  /\ Store(onExit(World, h, code))
  /\ UNCHANGED << HostVars, lastOp >>

\* The oldest 1000 ms timer fires.
TimerDue(kind) == Live /\ Idle /\ timers # << >> /\ Head(timers).kind = kind

ResumeTimer ==
  /\ TimerDue("resume")
  /\ Store(playResume([World EXCEPT !.timers = Tail(@)], Head(timers).arg))
  /\ UNCHANGED << HostVars, lastOp >>

KillCurrentTimer ==
  /\ TimerDue("killCurrent")
  /\ Store(killCurrentTimer([World EXCEPT !.timers = Tail(@)]))
  /\ UNCHANGED << HostVars, lastOp >>

KillPidTimer ==
  /\ TimerDue("killPid")
  /\ Store(killPidTimer([World EXCEPT !.timers = Tail(@)], Head(timers).arg))
  /\ UNCHANGED << HostVars, lastOp >>

\* What the event loop does on its own, whoever drives the RadioPlayer.
Events ==
  \/ \E o2 \in SpawnOutcomes : MpvError(o2)
  \/ VlcError
  \/ \E h \in DOMAIN procs : \E code \in ExitCodes(h) : ChildExit(h, code)
  \/ ResumeTimer
  \/ KillCurrentTimer
  \/ KillPidTimer

\* The RadioPlayer under any caller: its public methods may be invoked at any
\* point, also in the tick of an earlier call.
Next ==
  \/ \E station \in Stations, o1 \in SpawnOutcomes, o2 \in SpawnOutcomes :
       Play(station, o1, o2)
  \/ Stop
  \/ \E pgrep \in BOOLEAN : ForceStop(pgrep)
  \/ Events

Spec == Init /\ [][Next]_vars

\* The RadioPlayer under the host program of index.ts.
NextHost ==
  \/ \E station \in Stations, o1 \in SpawnOutcomes, o2 \in SpawnOutcomes :
       MenuPlay(station, o1, o2)
  \/ MenuStop
  \/ MenuExit
  \/ \E pgrep \in BOOLEAN : gracefulShutdown(pgrep)
  \/ ExitTimer
  \/ \E pgrep \in BOOLEAN : UncaughtException(pgrep)
  \/ \E pgrep \in BOOLEAN : UnhandledRejection(pgrep)
  \/ \E pgrep \in BOOLEAN : ExitHandler(pgrep)
  \/ Events

SpecHost == Init /\ [][NextHost]_vars

\* The search methods on their own: a call with its arguments and the
\* directory's answer, then the method that is applied to them.
PlayerVars ==
  << currentProcess, currentStation, processIds, procs, calls, ticks, timers,
     foreign, raised, host, exitCode, exitTimer, stdinOpen, lastOp >>

InitSearch ==
  /\ currentProcess = 0
  /\ currentStation = NoStation
  /\ processIds = << >>
  /\ procs = << >>
  /\ calls = << >>
  /\ ticks = << >>
  /\ timers = << >>
  /\ foreign = [f \in ForeignPids |-> "running"]
  /\ raised = FALSE
  /\ host = "Running"
  /\ exitCode = CodeNull
  /\ exitTimer = FALSE
  /\ stdinOpen = TRUE
  /\ lastOp = [op |-> "none", call |-> 0, prev |-> 0]
  /\ \E query \in Queries, limit \in Limits, reply \in Replies :
       search = [NoSearch EXCEPT !.phase = "called", !.query = query,
                                 !.limit = limit, !.reply = reply]

SearchStations ==
  /\ search.phase = "called"
  /\ LET r == searchStations(search.query, search.limit, search.reply)
     IN search' = [search EXCEPT !.phase = "returned", !.params = r.params,
                                 !.result = r.result]
  /\ UNCHANGED PlayerVars

SearchByGenre ==
  /\ search.phase = "called"
  /\ LET r == searchByGenre(search.query, search.limit, search.reply)
     IN search' = [search EXCEPT !.phase = "returned", !.params = r.params,
                                 !.result = r.result]
  /\ UNCHANGED PlayerVars

NextSearch == SearchStations \/ SearchByGenre

SpecSearch == InitSearch /\ [][NextSearch]_vars

\* The host under Node's event loop: a pending timer fires unless the process
\* exits first, and process.exit runs the 'exit' listeners synchronously.
SpecHostFair ==
  /\ SpecHost
  /\ WF_vars(ExitTimer)
  /\ WF_vars(\E pgrep \in BOOLEAN : ExitHandler(pgrep))

\* ---------------------------------------------------------------- claims
\* The 'error' event of child p has been delivered to its listener.
Delivered(p) ==
  /\ procs[p].errno # "ok"
  /\ \A i \in 1..Len(ticks) : ticks[i].proc # p

Tracked == {processIds[i] : i \in 1..Len(processIds)}

\* C1: once the host process has exited, every playback subprocess spawned
\* during the run that is still alive has been sent SIGKILL.
C1_NoPlayerSurvivesExit ==
  host = "Exited" =>
    \A p \in DOMAIN procs :
      (procs[p].hasPid /\ procs[p].alive) => procs[p].sigkill

\* C2: while play(B) is the last method invoked and it was invoked right
\* after a play(A) that had returned, getCurrentStation() is B's station, every
\* tracked identifier was spawned for B, and no identifier spawned for A is
\* tracked (a process of A that was alive then has been signalled).
C2_PreviousSessionRetired ==
  (lastOp.op = "play" /\ lastOp.prev # 0) =>
    /\ getCurrentStation(World) = calls[lastOp.call].station
    /\ \A pid \in Tracked : procs[pid].call = lastOp.call
    /\ \A p \in DOMAIN procs :
         (procs[p].call = lastOp.prev /\ procs[p].hasPid) =>
           /\ p \notin Tracked
           /\ procs[p].alive => procs[p].sigterm

\* C3: isPlaying() is true exactly when there is a primary subprocess handle
\* whose exit has not been observed; a subprocess that exited with a non-zero
\* code has produced a stopped-playback notice, and nothing was raised.
C3_IsPlayingIffNotExited ==
  /\ isPlaying(World) <=>
       (currentProcess # 0 /\ procs[currentProcess].code = NotExited)
  /\ \A p \in DOMAIN procs :
       procs[p].code \notin {NotExited, 0, CodeNull} => procs[p].notice
  /\ ~ raised

\* C4: every play() makes one launch attempt of mpv and at most one of vlc,
\* and exactly one of vlc, for the station of that play(), once mpv's
\* binary-not-found error was delivered.
C4_OneFallback ==
  /\ \A c \in DOMAIN calls :
       calls[c].primary = 1 /\ calls[c].secondary <= 1
  /\ \A q \in DOMAIN procs :
       procs[q].bin = "vlc" => procs[q].url = calls[procs[q].call].station.url
  /\ \A p \in DOMAIN procs :
       (procs[p].bin = "mpv" /\ procs[p].errno = "ENOENT" /\ Delivered(p)) =>
         calls[procs[p].call].secondary = 1

C4_Witness ==
  \E p \in DOMAIN procs, q \in DOMAIN procs :
    /\ procs[p].bin = "mpv" /\ procs[p].errno = "ENOENT"
    /\ procs[q].bin = "vlc" /\ procs[q].errno = "ENOENT" /\ Delivered(q)
    /\ procs[q].call = procs[p].call

\* C5: once mpv and then vlc failed with binary-not-found in one play(), the
\* install hint has been reported, that play() has not reported 'Now
\* playing!', and isPlaying() is false as long as no later launch replaced
\* the handle.
C5_NothingPlayingAfterBothMissing ==
  \A p \in DOMAIN procs, q \in DOMAIN procs :
    ( /\ procs[p].bin = "mpv" /\ procs[p].errno = "ENOENT"
      /\ procs[q].bin = "vlc" /\ procs[q].errno = "ENOENT" /\ Delivered(q)
      /\ procs[q].call = procs[p].call ) =>
        /\ procs[q].hint
        /\ ~ calls[procs[q].call].nowPlaying
        /\ currentProcess = q => ~ isPlaying(World)

C7_ForceStopNeverRaises ==
  [][ (\E pgrep \in BOOLEAN : ForceStop(pgrep)) =>
        /\ ~ raised'
        /\ currentStation' = NoStation
        /\ currentProcess' = 0
        /\ processIds' = << >> ]_vars

C7_Witness ==
  /\ lastOp.op = "forceStop"
  /\ lastOp.prev = 1
  /\ ~ raised
  /\ \E p \in DOMAIN procs : procs[p].hasPid /\ ~ procs[p].alive
  /\ \E p \in DOMAIN procs : procs[p].sigkill
  /\ foreign[102] = "running"

\* C8: right after stop() there is no current station, no tracked
\* identifier, and isPlaying() is false, whatever the subprocesses do.
C8_StopClearsAtOnce ==
  [][ Stop =>
        /\ getCurrentStation(World)' = NoStation
        /\ processIds' = << >>
        /\ ~ isPlaying(World)' ]_vars

C8_Witness ==
  /\ lastOp.op = "stop"
  /\ currentProcess = 0
  /\ \E p \in DOMAIN procs :
       procs[p].alive /\ procs[p].sigterm /\ ~ procs[p].sigkill

\* C9: stop() with no subprocess handle and no tracked identifier raises
\* nothing, creates no child, sends no signal, sets no timer, and leaves
\* isPlaying() false.
C9_StopIdleIsNoOp ==
  [][ (Stop /\ currentProcess = 0 /\ processIds = << >>) =>
        /\ raised' = raised
        /\ procs' = procs
        /\ foreign' = foreign
        /\ timers' = timers
        /\ ticks' = ticks
        /\ ~ isPlaying(World)' ]_vars

C9_Witness ==
  /\ lastOp.op = "stop"
  /\ procs = << >>
  /\ timers = << >>
  /\ ~ isPlaying(World)

\* C10: right after play(station) is invoked, from any state,
\* getCurrentStation() is that station.
C10_CurrentStationAfterPlay ==
  [][ \A station \in Stations, o1 \in SpawnOutcomes, o2 \in SpawnOutcomes :
        (Play(station, o1, o2) /\ station.url # "") =>
          getCurrentStation(World)' = station ]_vars

C10_Witness ==
  /\ lastOp.op = "play"
  /\ lastOp.call = 2
  /\ calls[1].station # calls[2].station
  /\ getCurrentStation(World) = calls[2].station

\* C11: a termination signal handled while the host runs invokes forceStop(),
\* closes the input stream and sets the exit timer; process.exit on this path
\* is reached only with forceStop() the last player method invoked; the host
\* never goes back to Running; and the host does not stay shutting down (it
\* is again and again either still Running or Exited for good).
C11_SignalShutsDown ==
  /\ [][ (\E pgrep \in BOOLEAN : gracefulShutdown(pgrep)) =>
          /\ lastOp'.op = "forceStop"
          /\ currentProcess' = 0 /\ processIds' = << >>
          /\ ~ stdinOpen'
          /\ exitTimer'
          /\ host' = "ShuttingDown" ]_vars
  /\ [][ ExitTimer => (lastOp.op = "forceStop" /\ ~ stdinOpen) ]_vars
  /\ [][ host # "Running" => host' # "Running" ]_vars
  /\ []<>(host \in {"Running", "Exited"})

C11_Witness ==
  /\ host = "Exited"
  /\ exitCode = 0
  /\ ~ stdinOpen
  /\ lastOp.op = "forceStop"
  /\ \E p \in DOMAIN procs : procs[p].alive /\ procs[p].sigkill

\* C12: the handler of an uncaught exception or of an unhandled rejection
\* invokes forceStop() and then process.exit with status 1; a failure status
\* is only ever set with forceStop() the last player method invoked and the
\* host in process.exit, and it is never replaced by another status.
C12_FailureExitAfterForceStop ==
  /\ [][ (\E pgrep \in BOOLEAN :
             UncaughtException(pgrep) \/ UnhandledRejection(pgrep)) =>
          /\ lastOp'.op = "forceStop"
          /\ currentProcess' = 0 /\ processIds' = << >>
          /\ host' = "Exiting"
          /\ exitCode' = 1 ]_vars
  /\ [](exitCode = 1 => (host \in {"Exiting", "Exited"} /\ lastOp.op = "forceStop"))
  /\ [][ exitCode = 1 => exitCode' = 1 ]_vars

C12_Witness ==
  /\ host = "Exited"
  /\ exitCode = 1
  /\ stdinOpen
  /\ \E c \in DOMAIN calls : ~ calls[c].resolved
  /\ \E p \in DOMAIN procs : procs[p].alive /\ procs[p].sigkill

\* The host's shutdown paths: termination signal, uncaught exception,
\* unhandled rejection, 'exit' event.
ShutdownPath ==
  \E pgrep \in BOOLEAN :
    \/ gracefulShutdown(pgrep)
    \/ UncaughtException(pgrep)
    \/ UnhandledRejection(pgrep)
    \/ ExitHandler(pgrep)

C14_ResultWithinLimit ==
  search.phase = "returned" => Len(search.result) <= search.limit

\* C15: while play(B) is the last method invoked, no subprocess spawned for B
\* has been sent SIGTERM or SIGKILL (a deferred kill set by an earlier stop()
\* does not reach it).
C15_DeferredKillSparesNewer ==
  lastOp.op = "play" =>
    \A p \in DOMAIN procs :
      procs[p].call = lastOp.call => (~ procs[p].sigterm /\ ~ procs[p].sigkill)

\* The processes a stop() is to end: those of the current handle and of the
\* tracked identifiers that have a process group to signal.
StopTargets ==
  {p \in DOMAIN procs :
     procs[p].hasPid /\ procs[p].alive /\ (p = currentProcess \/ p \in Tracked)}

\* C16: stop() (also the one at the start of play()) sends SIGTERM to the
\* process group of the current subprocess and of every tracked identifier;
\* a deferred kill sends SIGKILL only to a process that was sent SIGTERM when
\* the timer was set and that has not exited since.
C16_KillOnlyAfterGrace ==
  /\ [][ ( \/ Stop
           \/ \E station \in Stations, o1 \in SpawnOutcomes, o2 \in SpawnOutcomes :
                Play(station, o1, o2) ) =>
          \A p \in StopTargets : procs'[p].sigterm ]_vars
  /\ [][ (KillCurrentTimer \/ KillPidTimer) =>
          \A p \in DOMAIN procs :
            (procs'[p].sigkill /\ ~ procs[p].sigkill) =>
              (procs[p].sigterm /\ procs[p].alive) ]_vars

\* C17: when play() resumes after its delay, it reports 'Now playing!' only
\* if a subprocess spawned for that play() is alive at that moment.
C17_SuccessOnlyIfAlive ==
  [][ ResumeTimer =>
        LET c == Head(timers).arg IN
        calls'[c].nowPlaying =>
          \E p \in DOMAIN procs : procs'[p].call = c /\ procs'[p].alive ]_vars

\* The running subprocesses that no SIGTERM or SIGKILL has been sent to.
Unsignalled ==
  {p \in DOMAIN procs :
     procs[p].hasPid /\ procs[p].alive /\ ~ procs[p].sigterm /\ ~ procs[p].sigkill}

\* C18: at most one running subprocess has not been sent a termination
\* signal, and getCurrentStation() is the station it was launched for.
C18_OneUnsignalledPlayer ==
  /\ Cardinality(Unsignalled) <= 1
  /\ \A p \in Unsignalled : getCurrentStation(World).url = procs[p].url

\* C19: a subprocess has produced a stopped-playback notice exactly when it
\* exited with a code other than 0 and null; one that ended after stop(),
\* forceStop() or a replacing play() signalled it has produced none.
C19_NoticeOnlyOnFailure ==
  /\ \A p \in DOMAIN procs :
       procs[p].notice <=> procs[p].code \notin {NotExited, 0, CodeNull}
  /\ \A p \in DOMAIN procs :
       ((procs[p].sigterm \/ procs[p].sigkill) /\ procs[p].code # NotExited) =>
         ~ procs[p].notice

\* A method that runs killAllProcesses: stop(), forceStop(), or play() through
\* the stop() it begins with.
TerminationSweep ==
  \/ Stop
  \/ \E pgrep \in BOOLEAN : ForceStop(pgrep)
  \/ \E station \in Stations, o1 \in SpawnOutcomes, o2 \in SpawnOutcomes :
       Play(station, o1, o2)

\* C20 as stated: every subprocess spawned with a pid that no termination
\* signal was sent to is tracked, and an identifier leaves the tracked set
\* only in a termination sweep that has sent a signal to it.
C20_TrackedUntilSignalled ==
  /\ [](\A p \in DOMAIN procs :
          (procs[p].hasPid /\ ~ procs[p].sigterm /\ ~ procs[p].sigkill) =>
            p \in Tracked)
  /\ [][ \A p \in Tracked :
            p \notin Tracked' =>
              /\ TerminationSweep
              /\ procs'[p].sigterm \/ procs'[p].sigkill ]_vars

\* C20 amended: every running subprocess that no termination signal was sent
\* to is tracked; an identifier leaves the tracked set only in a termination
\* sweep, which has sent a signal to it if its process was still running (for
\* a process that has exited, process.kill throws and nothing is sent).
C20_RunningTrackedUntilSwept ==
  /\ [](\A p \in DOMAIN procs :
          ( /\ procs[p].hasPid /\ procs[p].alive
            /\ ~ procs[p].sigterm /\ ~ procs[p].sigkill ) =>
            p \in Tracked)
  /\ [][ \A p \in Tracked :
            p \notin Tracked' =>
              /\ TerminationSweep
              /\ procs[p].alive => (procs'[p].sigterm \/ procs'[p].sigkill) ]_vars

C20_Witness ==
  /\ lastOp.op = "stop"
  /\ Tracked = {}
  /\ \E p \in DOMAIN procs :
       /\ procs[p].hasPid /\ ~ procs[p].alive
       /\ ~ procs[p].sigterm /\ ~ procs[p].sigkill
  /\ \E q \in DOMAIN procs :
       procs[q].bin = "vlc" /\ procs[q].alive /\ procs[q].sigterm

====
